---- MODULE Spec2Model ----
(***************************************************************************)
(* Model of the consumption counter core (src/src/consumption.c): the      *)
(* module state g_state, the ring buffer, the aggregator, the sync         *)
(* scheduler and the lifecycle, together with the platform collaborators   *)
(* (clock, persistent blob store, network sink) as nondeterministic        *)
(* inputs.                                                                 *)
(***************************************************************************)
EXTENDS Integers, Sequences, FiniteSets, TLC

(* ------------------------------------------------------------------ *)
(* Bounds of the model                                                 *)
(* ------------------------------------------------------------------ *)
MaxTime == 2
MaxEvents == 3
MaxProduct == 1
\* lifecycle calls that take effect in one run: init past validation,
\* update_config accepted
MaxInits == 2

\* aggregates formatted: counts per category, and the spacing of the categories
MaxCount == 2

MaxStep == 2
\* The modulus of the unsigned words of the model. The code's words are 32 bits
\* wide; the model checker's integers are not, so the word is modelled 30 bits
\* wide. Every clock reading, counter and interval of the model is far below
\* it, and a wrapped difference is far above every interval either way.
WordMod == 1073741824

(* ------------------------------------------------------------------ *)
(* Program constants                                                   *)
(* ------------------------------------------------------------------ *)
MAX_RING_BUFFER_SIZE == 10000
DEFAULT_RING_BUFFER_SIZE == 1000
DEFAULT_AGGREGATION_INTERVAL == 3600
DEFAULT_MAX_RETRY_ATTEMPTS == 3
PRODUCT_COUNTS_LEN == 256

JSON_BUFFER_SIZE == 1024

CONSUMPTION_SUCCESS == "SUCCESS"
CONSUMPTION_ERROR_INVALID_CONFIG == "INVALID_CONFIG"
CONSUMPTION_ERROR_NETWORK_UNAVAILABLE == "NETWORK_UNAVAILABLE"
CONSUMPTION_ERROR_API_ERROR == "API_ERROR"
CONSUMPTION_ERROR_MEMORY_ERROR == "MEMORY_ERROR"
CONSUMPTION_ERROR_INVALID_PARAMETER == "INVALID_PARAMETER"

VARIABLES
    g_state,    \* the module state singleton
    storage,    \* the persistent blob: <<>> when absent, <<blob>> when written
    clock,      \* the platform clock, seconds
    crashed,    \* the process died on a trap (division by zero, NULL write)
    last,       \* observation of the last step: the call, what it returned and did
    log,        \* events accepted since the last successful init, oldest first
    fresh,      \* the last successful init did not restore a blob
    inits,      \* lifecycle calls that took effect: init past validation,
                \* update_config accepted
    failed,     \* the aggregate of the last rejected send, until one is accepted
    running,    \* init has returned success, and no deinit or restart since
    thr,        \* concurrent callers: where each is in its call, and its locals
    heap        \* blocks malloc has handed out and free has not taken back

vars == <<g_state, storage, clock, crashed, last, log, fresh, inits, failed, running,
          thr, heap>>

(* ------------------------------------------------------------------ *)
(* Unsigned 32-bit arithmetic                                          *)
(* ------------------------------------------------------------------ *)
Wrap32(x) == x % WordMod

Sub32(a, b) == (a - b) % WordMod

\* a % n of the code. n = 0 is undefined behaviour: the trapping outcome is
\* the action DispenseTrap; this is the outcome of a build whose divide
\* instruction yields 0 on a zero divisor (a - (a / n) * n = a).
ModU(a, n) == IF n = 0 THEN a ELSE a % n

(* ------------------------------------------------------------------ *)
(* Types                                                               *)
(* ------------------------------------------------------------------ *)
EmptyMem == [i \in {} |-> 0]

NullBuffer == [alloc |-> FALSE, mem |-> EmptyMem]

\* malloc's result: allocated, every slot uninitialised
FreshBuffer == [alloc |-> TRUE, mem |-> EmptyMem]

ZeroConfig ==
    [machine_id |-> 0, enable_external_api |-> FALSE, ring_buffer_size |-> 0,
     aggregation_interval |-> 0, api_endpoint |-> "", max_retry_attempts |-> 0]

\* static consumption_state_t g_state = {0}
ZeroState ==
    [initialized |-> FALSE, config |-> ZeroConfig, total_events |-> 0,
     buffer_head |-> 0, buffer_tail |-> 0, buffer_count |-> 0,
     event_buffer |-> NullBuffer, last_aggregation |-> 0, last_sync |-> 0,
     sync_in_progress |-> FALSE]

(* ------------------------------------------------------------------ *)
(* Config Manager                                                      *)
(* ------------------------------------------------------------------ *)
\* Mutation of validate_config: no upper limit on the capacity.
validate_config_NoLimit(config) ==
    /\ config # <<>>
    /\ config[1].machine_id # 0
    /\ config[1].ring_buffer_size # 0

\* A config argument is <<>> (NULL) or <<config>>.
validate_config(config) ==
    /\ config # <<>>
    /\ config[1].machine_id # 0
    /\ config[1].ring_buffer_size # 0
    /\ ~(config[1].ring_buffer_size > MAX_RING_BUFFER_SIZE)

init_default_config ==
    [machine_id |-> 0, enable_external_api |-> FALSE,
     ring_buffer_size |-> DEFAULT_RING_BUFFER_SIZE,
     aggregation_interval |-> DEFAULT_AGGREGATION_INTERVAL,
     api_endpoint |-> "https://api.example.com/consumption",
     max_retry_attempts |-> DEFAULT_MAX_RETRY_ATTEMPTS]

(* ------------------------------------------------------------------ *)
(* Persistence                                                         *)
(* ------------------------------------------------------------------ *)
\* The blob is the bytes of g_state. The event_buffer pointer it holds is
\* stale on restore and always overwritten by init before any use, so the
\* blob keeps it as NULL; the events themselves are not part of the struct.
\* Mutation of BlobOf: the window start is left out of the blob.
BlobOf_NoWindow(st) ==
    [st EXCEPT !.event_buffer = NullBuffer, !.last_aggregation = 0]

BlobOf(st) == [st EXCEPT !.event_buffer = NullBuffer]

(* ------------------------------------------------------------------ *)
(* Ring Buffer Store                                                   *)
(* ------------------------------------------------------------------ *)
\* Mutation of BufferFull: the buffer is taken as full one append too late.
BufferFull_OneLate(st) == st.buffer_count > st.config.ring_buffer_size

BufferFull(st) == st.buffer_count >= st.config.ring_buffer_size

\* Mutation of EvictOldest: the slot is given up but tail stays.
EvictOldest_KeepTail(st) ==
    [st EXCEPT !.buffer_count = Wrap32(st.buffer_count - 1)]

\* Mutation of EvictOldest: the evicted event is taken off the lifetime total.
EvictOldest_Uncount(st) ==
    [st EXCEPT !.buffer_tail = ModU(st.buffer_tail + 1, st.config.ring_buffer_size),
               !.buffer_count = Wrap32(st.buffer_count - 1),
               !.total_events = Wrap32(st.total_events - 1)]

EvictOldest(st) ==
    [st EXCEPT !.buffer_tail = ModU(st.buffer_tail + 1, st.config.ring_buffer_size),
               !.buffer_count = Wrap32(st.buffer_count - 1)]

\* The store through a NULL event_buffer is undefined behaviour: where it does
\* not trap (see DispenseTrap) the event is lost and the slot reads as garbage.
InsertAtHead(st, event) ==
    [st EXCEPT !.event_buffer.mem =
                    IF st.event_buffer.alloc
                    THEN (st.buffer_head :> event) @@ st.event_buffer.mem
                    ELSE st.event_buffer.mem,
               !.buffer_head = ModU(st.buffer_head + 1, st.config.ring_buffer_size),
               !.buffer_count = Wrap32(st.buffer_count + 1)]

add_event_to_buffer(st, event) ==
    InsertAtHead(IF BufferFull(st) THEN EvictOldest(st) ELSE st, event)

\* The append divides by the capacity and writes through event_buffer: with
\* capacity 0 or a NULL buffer it is undefined behaviour.
AppendUndefined(st) ==
    \/ st.config.ring_buffer_size = 0
    \/ ~st.event_buffer.alloc

\* The slot indices aggregate_events visits, oldest first.
LiveIndex(st, i) == ModU(st.buffer_tail + i, st.config.ring_buffer_size)

LiveIndices(st) == {LiveIndex(st, i) : i \in 0..(st.buffer_count - 1)}

\* Live slots never written since the buffer was allocated: reading one
\* reads uninitialised memory.
GarbageLive(st) == LiveIndices(st) \ DOMAIN st.event_buffer.mem

\* fill is what the uninitialised slots happen to hold.
ReadSlot(st, idx, fill) ==
    IF idx \in DOMAIN st.event_buffer.mem THEN st.event_buffer.mem[idx] ELSE fill[idx]

\* The buffer read from tail to head.
Contents(st, fill) ==
    [i \in 1..st.buffer_count |-> ReadSlot(st, LiveIndex(st, i - 1), fill)]

\* The aggregation loop indexes event_buffer modulo the capacity once per
\* live event: with a NULL buffer or capacity 0 and a nonzero count it is
\* undefined behaviour.
AggregateUndefined(st) ==
    /\ st.buffer_count > 0
    /\ (st.config.ring_buffer_size = 0 \/ ~st.event_buffer.alloc)

(* ------------------------------------------------------------------ *)
(* Aggregator                                                          *)
(* ------------------------------------------------------------------ *)
\* Mutation of InWindow: the window is open at its start.
InWindow_OpenStart(event, start_time, end_time) ==
    event.timestamp > start_time /\ event.timestamp <= end_time

\* Mutation of InWindow: the window is open at its end.
InWindow_OpenEnd(event, start_time, end_time) ==
    event.timestamp >= start_time /\ event.timestamp < end_time

InWindow(event, start_time, end_time) ==
    event.timestamp >= start_time /\ event.timestamp <= end_time

\* product_counts keeps the nonzero entries of the array (memset zeroes the
\* rest); product_id is a uint8_t, so the index guard < 256 always holds.
aggregate_events(st, start_time, end_time, fill) ==
    LET evs == Contents(st, fill)
        hit == {i \in DOMAIN evs : InWindow(evs[i], start_time, end_time)}
    IN [machine_id |-> st.config.machine_id,
        period_start |-> start_time,
        period_end |-> end_time,
        total_events |-> Cardinality(hit),
        product_counts |->
            [c \in {evs[i].product_id : i \in hit} \cap 0..(PRODUCT_COUNTS_LEN - 1) |->
                Cardinality({i \in hit : evs[i].product_id = c})]]

\* product_counts[c] of an aggregate
ProductCount(aggregate, c) ==
    IF c \in DOMAIN aggregate.product_counts THEN aggregate.product_counts[c] ELSE 0

(* ------------------------------------------------------------------ *)
(* JSON payload                                                        *)
(*                                                                     *)
(* The text is kept as its pieces: a piece is in the payload when      *)
(* snprintf had room for all of it.                                    *)
(* ------------------------------------------------------------------ *)
RECURSIVE Digits(_)
\* the length of n printed with %u
Digits(n) == IF n < 10 THEN 1 ELSE 1 + Digits(n \div 10)

\* {"machine_id":%u,"period_start":%u,"period_end":%u,"total_events":%u
HeaderLength(aggregate) ==
    14 + Digits(aggregate.machine_id) + 16 + Digits(aggregate.period_start)
       + 14 + Digits(aggregate.period_end) + 16 + Digits(aggregate.total_events)

\* "%d":%u
EntryLength(aggregate, i) == 3 + Digits(i) + Digits(ProductCount(aggregate, i))

\* len += snprintf(json_buffer + len, sizeof(json_buffer) - len, ...) with a
\* text of n characters: snprintf stores the text whole when n characters and
\* the terminator fit in what is left, and returns n either way. Once len
\* is past the buffer, the size wraps and the call writes out of bounds.
Snprintf(json, n, piece) ==
    [json EXCEPT !.len = json.len + n,
                 !.pieces = IF json.len + n < JSON_BUFFER_SIZE
                            THEN json.pieces \cup {piece}
                            ELSE json.pieces,
                 !.overrun = json.overrun \/ json.len > JSON_BUFFER_SIZE]

\* json_buffer before the first snprintf
EmptyJson == [len |-> 0, pieces |-> {}, overrun |-> FALSE]

\* the header and the opening of the products object
JsonHeader(aggregate) ==
    Snprintf(Snprintf(EmptyJson, HeaderLength(aggregate), <<"header", 0>>),
             13, <<"open", 0>>)

\* One turn of the loop over product_counts[1..255]; first: no entry has
\* been printed yet.
JsonProduct(aggregate, i, json) ==
    IF ProductCount(aggregate, i) > 0
    THEN LET first == \A j \in 1..(i - 1) : ProductCount(aggregate, j) = 0
             sep == IF first THEN json ELSE Snprintf(json, 1, <<"comma", i>>)
         IN Snprintf(sep, EntryLength(aggregate, i), <<"entry", i>>)
    ELSE json

JsonClose(json) == Snprintf(json, 2, <<"close", 0>>)

\* The text handed to the network sink, read back: the fields of the header,
\* the entries of the products object, the length passed with it, and
\* whether building it wrote out of the buffer.
Payload(aggregate, json) ==
    LET whole == <<"header", 0>> \in json.pieces
    IN [machine_id |-> IF whole THEN <<aggregate.machine_id>> ELSE <<>>,
        period_start |-> IF whole THEN <<aggregate.period_start>> ELSE <<>>,
        period_end |-> IF whole THEN <<aggregate.period_end>> ELSE <<>>,
        total_events |-> IF whole THEN <<aggregate.total_events>> ELSE <<>>,
        products |-> [i \in {j \in 1..(PRODUCT_COUNTS_LEN - 1) :
                                <<"entry", j>> \in json.pieces} |->
                        ProductCount(aggregate, i)],
        closed |-> <<"close", 0>> \in json.pieces,
        len |-> json.len,
        overrun |-> json.overrun]

(* ------------------------------------------------------------------ *)
(* Sync Scheduler                                                      *)
(* ------------------------------------------------------------------ *)
\* What a call did besides changing g_state: its return value, whether it
\* aggregated, the aggregates whose payload went to the network sink (the
\* JSON text itself is not modelled), the blobs handed to
\* the storage, the exit sync_to_api took (if it was entered past the enable
\* check), and the clock readings it took, in order.
Outcome(st, ret, agg, sent, saved, sync, reads) ==
    [st |-> st, ret |-> ret, agg |-> agg, sent |-> sent, saved |-> saved,
     sync |-> sync, reads |-> reads]

SyncEnter(st) == [st EXCEPT !.sync_in_progress = TRUE]

SyncLeave(st) == [st EXCEPT !.sync_in_progress = FALSE]

\* Mutation of IntervalNotElapsed: the interval is not waited for.
IntervalNotElapsed_Never(st, now) == FALSE

\* Mutation of IntervalNotElapsed: the interval is measured from last_sync.
IntervalNotElapsed_SinceSync(st, now) ==
    Sub32(now, st.last_sync) < st.config.aggregation_interval

IntervalNotElapsed(st, now) ==
    Sub32(now, st.last_aggregation) < st.config.aggregation_interval

\* Mutation of SyncTooEarly: the early exit leaves the flag set.
SyncTooEarly_StaysBusy(st, now) == st

\* the exit "not enough time passed"
SyncTooEarly(st, now) == SyncLeave(st)

\* Mutation of SyncNothingToSend: an empty window is closed.
SyncNothingToSend_Advance(st, now) ==
    [st EXCEPT !.sync_in_progress = FALSE, !.last_aggregation = now]

\* the exit "nothing to send"
SyncNothingToSend(st, now) == SyncLeave(st)

\* Mutation of SyncAccepted: the window is not moved.
SyncAccepted_KeepWindow(st, now, period_end) ==
    [st EXCEPT !.sync_in_progress = FALSE, !.last_sync = now]

\* Mutation of SyncAccepted: the window moves, last_sync is not stamped.
SyncAccepted_StaleSync(st, now, period_end) ==
    [st EXCEPT !.sync_in_progress = FALSE, !.last_aggregation = period_end]

\* Mutation of SyncAccepted: the events sent are dropped from the buffer.
SyncAccepted_DropsSent(st, now, period_end) ==
    [st EXCEPT !.sync_in_progress = FALSE, !.last_sync = now,
               !.last_aggregation = period_end, !.buffer_tail = st.buffer_head,
               !.buffer_count = 0]

\* the sink accepted the payload
SyncAccepted(st, now, period_end) ==
    [SyncLeave(st) EXCEPT !.last_sync = now, !.last_aggregation = period_end]

\* Mutation of SyncRejected: the failed window is closed.
SyncRejected_Advance(st, now) ==
    [st EXCEPT !.sync_in_progress = FALSE, !.last_aggregation = now]

\* the sink rejected the payload
SyncRejected(st, now) == SyncLeave(st)

\* Mutation of SinkDisabled: the enable flag is not consulted.
SinkDisabled_Never(st) == FALSE

SinkDisabled(st) == ~st.config.enable_external_api

sync_to_api(st, now, sendOK, fill) ==
    IF SinkDisabled(st)
    THEN Outcome(st, CONSUMPTION_SUCCESS, FALSE, <<>>, <<>>, <<>>, <<>>)
    ELSE IF st.sync_in_progress
    THEN Outcome(st, CONSUMPTION_ERROR_API_ERROR, FALSE, <<>>, <<>>, <<"busy">>, <<>>)
    ELSE
        LET syncing == SyncEnter(st) IN
        IF IntervalNotElapsed(syncing, now)
        THEN Outcome(SyncTooEarly(syncing, now), CONSUMPTION_SUCCESS, FALSE,
                     <<>>, <<>>, <<"early">>, <<now>>)
        ELSE
            LET aggregate == aggregate_events(syncing, syncing.last_aggregation,
                                              now, fill)
            IN
            IF aggregate.total_events = 0
            THEN Outcome(SyncNothingToSend(syncing, now), CONSUMPTION_SUCCESS, TRUE,
                         <<>>, <<>>, <<"empty">>, <<now>>)
            ELSE IF sendOK
            THEN LET st2 == SyncAccepted(syncing, now, aggregate.period_end) IN
                 Outcome(st2, CONSUMPTION_SUCCESS, TRUE, <<aggregate>>,
                         <<BlobOf(st2)>>, <<"accepted">>, <<now>>)
            ELSE Outcome(SyncRejected(syncing, now), CONSUMPTION_ERROR_API_ERROR,
                         TRUE, <<aggregate>>, <<>>, <<"rejected">>, <<now>>)

(* ------------------------------------------------------------------ *)
(* Public operations, as functions of the state and the inputs         *)
(* ------------------------------------------------------------------ *)
NoEffect(st, ret) == Outcome(st, ret, FALSE, <<>>, <<>>, <<>>, <<>>)

\* Mutation of AlreadyInitialized: init goes through its start-up again.
AlreadyInitialized_Never(st) == FALSE

AlreadyInitialized(st) == st.initialized

\* read is what consumption_platform_storage_read did: <<>> when it returned
\* false, <<blob>> when it returned true after filling g_state.
\* the reset when load_state fails
ResetState(given, now) ==
    [ZeroState EXCEPT !.config = given, !.last_aggregation = now]

consumption_init(st, config, read, mallocOK, now) ==
    IF AlreadyInitialized(st) THEN NoEffect(st, CONSUMPTION_SUCCESS)
    ELSE IF config # <<>> /\ ~validate_config(config)
    THEN NoEffect(st, CONSUMPTION_ERROR_INVALID_CONFIG)
    ELSE
        LET given == IF config # <<>> THEN config[1] ELSE init_default_config
            loaded == IF read # <<>> THEN read[1] ELSE ResetState(given, now)
            reads == IF read = <<>> THEN <<now>> ELSE <<>>
        IN IF ~mallocOK
           THEN [NoEffect([loaded EXCEPT !.event_buffer = NullBuffer],
                          CONSUMPTION_ERROR_MEMORY_ERROR)
                    EXCEPT !.reads = reads]
           ELSE [NoEffect([loaded EXCEPT !.event_buffer = FreshBuffer,
                                         !.initialized = TRUE],
                          CONSUMPTION_SUCCESS)
                    EXCEPT !.reads = reads]

\* Mutation of ValidDispense: product 0 is let through.
ValidDispense_AnyProduct(st, machine_id, product_id) ==
    machine_id = st.config.machine_id

ValidDispense(st, machine_id, product_id) ==
    machine_id = st.config.machine_id /\ product_id # 0

CountEvent(st) == [st EXCEPT !.total_events = Wrap32(st.total_events + 1)]

\* Mutation of OpportunisticSyncDue: the gate waits for two intervals.
OpportunisticSyncDue_TwoIntervals(st, now) ==
    Sub32(now, st.last_sync) >= 2 * st.config.aggregation_interval

OpportunisticSyncDue(st, now) ==
    Sub32(now, st.last_sync) >= st.config.aggregation_interval

\* t1, t2, t3 are the clock readings of the call: the event timestamp, the
\* opportunistic gate, and sync_to_api's own reading.
\* Mutation of IgnoreSyncResult: the result of the sync is returned.
IgnoreSyncResult_Propagates(r) == r

\* The result of the opportunistic sync is dropped: the call returns success.
IgnoreSyncResult(r) == [r EXCEPT !.ret = CONSUMPTION_SUCCESS]

consumption_on_dispense(st, machine_id, product_id, t1, t2, t3, sendOK, fill) ==
    IF ~st.initialized THEN NoEffect(st, CONSUMPTION_ERROR_INVALID_CONFIG)
    ELSE IF ~ValidDispense(st, machine_id, product_id)
    THEN NoEffect(st, CONSUMPTION_ERROR_INVALID_PARAMETER)
    ELSE
        LET event == [timestamp |-> t1, machine_id |-> machine_id,
                      product_id |-> product_id]
            st1 == CountEvent(add_event_to_buffer(st, event))
        IN IF SinkDisabled(st1)
           THEN [NoEffect(st1, CONSUMPTION_SUCCESS) EXCEPT !.reads = <<t1>>]
           ELSE IF ~OpportunisticSyncDue(st1, t2)
           THEN [NoEffect(st1, CONSUMPTION_SUCCESS) EXCEPT !.reads = <<t1, t2>>]
           ELSE LET r == sync_to_api(st1, t3, sendOK, fill) IN
                [IgnoreSyncResult(r) EXCEPT !.reads = <<t1, t2>> \o r.reads]

\* The call with three non-NULL pointers: the return value and what it
\* stores through them.
consumption_get_stats(st) ==
    IF ~st.initialized
    THEN [ret |-> CONSUMPTION_ERROR_INVALID_CONFIG, out |-> <<>>]
    ELSE [ret |-> CONSUMPTION_SUCCESS,
          out |-> <<[total_events |-> st.total_events,
                     buffered_events |-> st.buffer_count,
                     last_sync |-> st.last_sync]>>]

consumption_force_sync(st, now, sendOK, fill) ==
    IF ~st.initialized THEN NoEffect(st, CONSUMPTION_ERROR_INVALID_CONFIG)
    ELSE sync_to_api(st, now, sendOK, fill)

ReleaseModule(st) ==
    [st EXCEPT !.event_buffer = NullBuffer, !.initialized = FALSE]

consumption_deinit(st, now, sendOK, fill) ==
    IF ~st.initialized THEN NoEffect(st, CONSUMPTION_SUCCESS)
    ELSE
        LET r == sync_to_api(st, now, sendOK, fill)
            done == ReleaseModule(r.st)
        IN [r EXCEPT !.st = done, !.ret = CONSUMPTION_SUCCESS,
                     !.saved = Append(r.saved, BlobOf(r.st))]

\* Mutation of CapacityChanged: a new capacity is let through.
CapacityChanged_Ignored(st, config) == FALSE

CapacityChanged(st, config) ==
    config[1].ring_buffer_size # st.config.ring_buffer_size

\* Mutation of StoreConfig: taking a new config empties the ring buffer.
StoreConfig_ResetsBuffer(st, config) ==
    [st EXCEPT !.config = config[1], !.buffer_head = 0, !.buffer_tail = 0,
               !.buffer_count = 0]

StoreConfig(st, config) == [st EXCEPT !.config = config[1]]

consumption_get_config(st) == st.config

consumption_update_config(st, config) ==
    IF ~validate_config(config) THEN NoEffect(st, CONSUMPTION_ERROR_INVALID_CONFIG)
    ELSE IF CapacityChanged(st, config)
    THEN NoEffect(st, CONSUMPTION_ERROR_INVALID_PARAMETER)
    ELSE LET st2 == StoreConfig(st, config) IN
         [NoEffect(st2, CONSUMPTION_SUCCESS) EXCEPT !.saved = <<BlobOf(st2)>>]

(* ------------------------------------------------------------------ *)
(* Inputs                                                              *)
(* ------------------------------------------------------------------ *)
Min(a, b) == IF a < b THEN a ELSE b

\* A clock reading taken no earlier than t: the clock is monotonic, and
\* ticks at most once while a call runs.
Readings(t) == {t, Min(clock + 1, MaxTime)} \cap (t..MaxTime)

\* The clock after a call: its last reading, if it took one.
ClockAfter(reads) == IF reads = <<>> THEN clock ELSE reads[Len(reads)]

\* The sink's answers worth telling apart: both when the call reaches the
\* sink, one otherwise.
SinkAnswers(r) == IF r.sent = <<>> THEN {TRUE} ELSE BOOLEAN

ConfigA ==
    [machine_id |-> 1, enable_external_api |-> TRUE, ring_buffer_size |-> 2,
     aggregation_interval |-> 1, api_endpoint |-> "a", max_retry_attempts |-> 3]

InitConfigs ==
    { <<>>,
      <<ConfigA>>,
      <<[ConfigA EXCEPT !.machine_id = 0]>>,
      <<[ConfigA EXCEPT !.ring_buffer_size = 0]>>,
      <<[ConfigA EXCEPT !.ring_buffer_size = MAX_RING_BUFFER_SIZE + 1]>> }

UpdateConfigs ==
    { <<>>,
      <<[ConfigA EXCEPT !.aggregation_interval = 2]>>,
      <<[ConfigA EXCEPT !.enable_external_api = FALSE]>>,
      <<[ConfigA EXCEPT !.machine_id = 2]>>,
      <<[ConfigA EXCEPT !.machine_id = 0]>>,
      <<[ConfigA EXCEPT !.ring_buffer_size = 3]>> }

MachineIds == {0, 1, 2}

ProductIds == 0..MaxProduct

\* What an uninitialised slot may read as.
GarbageEvents ==
    { [timestamp |-> 0, machine_id |-> 0, product_id |-> 0],
      [timestamp |-> MaxTime, machine_id |-> 1, product_id |-> 1] }

\* The slots a call on st may read uninitialised: the live ones never
\* written, and the one an append through a NULL buffer fails to write.
Fills(st) ==
    [GarbageLive(st) \cup (IF st.event_buffer.alloc THEN {} ELSE {st.buffer_head})
        -> GarbageEvents]

\* What consumption_platform_storage_read may do: fail; return the blob
\* written last; or, with nothing written yet, return zeros and report
\* success (consumption_platform_linux.c).
StorageReads ==
    {<<>>} \cup (IF storage = <<>> THEN {<<BlobOf(ZeroState)>>} ELSE {storage})

\* consumption_platform_storage_write keeps the blob written last.
Stored(saved) == IF saved = <<>> THEN storage ELSE <<saved[Len(saved)]>>

\* What the last call was seen to do; retry: it reached the sink while a
\* rejected window was pending.
Observe(op, r) ==
    [op |-> op, ret |-> r.ret, sync |-> r.sync, sent |-> Len(r.sent),
     saved |-> Len(r.saved), retry |-> failed # <<>> /\ r.sent # <<>>]

Quiet(op) == Observe(op, NoEffect(ZeroState, CONSUMPTION_SUCCESS))

\* The window of a rejected send stays pending until a send is accepted.
Pending(r) ==
    IF r.sync = <<"rejected">>
    THEN <<[period_start |-> r.sent[1].period_start,
            period_end |-> r.sent[1].period_end]>>
    ELSE IF r.sync = <<"accepted">> THEN <<>>
    ELSE failed

Threads == {1, 2}

Idle == [pc |-> "idle", now |-> 0, sent |-> <<>>]

\* The blocks a serialised caller holds: the ring buffer, if allocated.
Blocks(st) == IF st.event_buffer.alloc THEN 1 ELSE 0

(* ------------------------------------------------------------------ *)
(* Actions: callers serialised at the public entry points              *)
(* ------------------------------------------------------------------ *)
Init ==
    /\ g_state = ZeroState
    /\ storage = <<>>
    /\ clock = 0
    /\ crashed = FALSE
    /\ failed = <<>>
    /\ last = Quiet("boot")
    /\ log = <<>>
    /\ fresh = FALSE
    /\ inits = 0
    /\ running = FALSE
    /\ thr = [t \in Threads |-> Idle]
    /\ heap = 0

Tick ==
    /\ ~crashed
    /\ clock < MaxTime
    /\ clock' = clock + 1
    /\ last' = Quiet("tick")
    /\ UNCHANGED <<g_state, storage, crashed, log, fresh, inits, failed, running, thr,
                   heap>>

InitModule ==
    /\ ~crashed
    /\ \E config \in InitConfigs, read \in StorageReads, mallocOK \in BOOLEAN :
        LET r == consumption_init(g_state, config, read, mallocOK, clock)
            loads == ~g_state.initialized
                        /\ r.ret # CONSUMPTION_ERROR_INVALID_CONFIG
            started == ~g_state.initialized /\ r.ret = CONSUMPTION_SUCCESS
        IN /\ loads => inits < MaxInits
           \* a storage or an allocator the call does not reach is not told apart
           /\ ~loads => read = <<>> /\ mallocOK
           /\ g_state' = r.st
           /\ last' = Observe("init", r)
           /\ log' = IF loads THEN <<>> ELSE log
           /\ fresh' = IF loads THEN started /\ read = <<>> ELSE fresh
           /\ failed' = IF loads THEN <<>> ELSE failed
           /\ inits' = IF loads THEN inits + 1 ELSE inits
           /\ running' = (running \/ r.ret = CONSUMPTION_SUCCESS)
    /\ heap' = Blocks(g_state')
    /\ UNCHANGED <<storage, clock, crashed, thr>>

OnDispense ==
    /\ ~crashed
    /\ \E machine_id \in MachineIds, product_id \in ProductIds :
       \E t1 \in Readings(clock) : \E t2 \in Readings(t1) : \E t3 \in Readings(t2) :
       \E fill \in Fills(g_state) :
        LET r0 == consumption_on_dispense(g_state, machine_id, product_id,
                                          t1, t2, t3, TRUE, fill)
        IN \* a reading the call does not take is not told apart
           /\ Len(r0.reads) < 1 => t1 = clock
           /\ Len(r0.reads) < 2 => t2 = t1
           /\ Len(r0.reads) < 3 => t3 = t2
           /\ r0.ret = CONSUMPTION_SUCCESS =>
                g_state.total_events < MaxEvents /\ Len(log) < MaxEvents
           /\ \E sendOK \in SinkAnswers(r0) :
               LET r == consumption_on_dispense(g_state, machine_id, product_id,
                                                t1, t2, t3, sendOK, fill)
               IN /\ g_state' = r.st
                  /\ storage' = Stored(r.saved)
                  /\ clock' = ClockAfter(r.reads)
                  /\ last' = Observe("on_dispense", r)
                  /\ failed' = Pending(r)
                  /\ log' = IF r.ret = CONSUMPTION_SUCCESS
                            THEN Append(log, [timestamp |-> t1,
                                              machine_id |-> machine_id,
                                              product_id |-> product_id])
                            ELSE log
    /\ UNCHANGED <<crashed, fresh, inits, running, thr, heap>>

\* The trapping outcome of an accepted call whose append is undefined
\* behaviour: the process dies.
DispenseTrap ==
    /\ ~crashed
    /\ g_state.initialized
    /\ AppendUndefined(g_state)
    /\ crashed' = TRUE
    /\ last' = Quiet("trap")
    /\ UNCHANGED <<g_state, storage, clock, log, fresh, inits, failed, running, thr,
                   heap>>

\* The trapping outcome of a force_sync or a deinit whose sync reaches an
\* aggregation that is undefined behaviour: the process dies inside the call.
SyncTrap ==
    /\ ~crashed
    /\ g_state.initialized
    /\ AggregateUndefined(g_state)
    /\ \E now \in Readings(clock), fill \in Fills(g_state) :
       \E op \in {"force_sync_trap", "deinit_trap"} :
        LET r == sync_to_api(g_state, now, TRUE, fill)
        IN /\ r.sync \in {<<"empty">>, <<"accepted">>}
           /\ clock' = ClockAfter(r.reads)
           /\ last' = Quiet(op)
    /\ crashed' = TRUE
    /\ UNCHANGED <<g_state, storage, log, fresh, inits, failed, running, thr, heap>>

ForceSync ==
    /\ ~crashed
    /\ \E now \in Readings(clock), fill \in Fills(g_state) :
        LET r0 == consumption_force_sync(g_state, now, TRUE, fill)
        IN /\ r0.reads = <<>> => now = clock
           /\ \E sendOK \in SinkAnswers(r0) :
               LET r == consumption_force_sync(g_state, now, sendOK, fill)
               IN /\ g_state' = r.st
                  /\ storage' = Stored(r.saved)
                  /\ clock' = ClockAfter(r.reads)
                  /\ last' = Observe("force_sync", r)
                  /\ failed' = Pending(r)
    /\ UNCHANGED <<crashed, log, fresh, inits, running, thr, heap>>

Deinit ==
    /\ ~crashed
    /\ \E now \in Readings(clock), fill \in Fills(g_state) :
        LET r0 == consumption_deinit(g_state, now, TRUE, fill)
        IN /\ r0.reads = <<>> => now = clock
           /\ \E sendOK \in SinkAnswers(r0) :
               LET r == consumption_deinit(g_state, now, sendOK, fill)
               IN /\ g_state' = r.st
                  /\ storage' = Stored(r.saved)
                  /\ clock' = ClockAfter(r.reads)
                  /\ last' = Observe("deinit", r)
    /\ log' = <<>>
    /\ fresh' = FALSE
    /\ failed' = <<>>
    /\ running' = FALSE
    /\ heap' = Blocks(g_state')
    /\ UNCHANGED <<crashed, inits, thr>>

UpdateConfig ==
    /\ ~crashed
    /\ \E config \in UpdateConfigs :
        LET r == consumption_update_config(g_state, config)
            changes == r.ret = CONSUMPTION_SUCCESS
        IN /\ changes => inits < MaxInits
           /\ g_state' = r.st
           /\ storage' = Stored(r.saved)
           /\ last' = Observe("update_config", r)
           /\ inits' = IF changes THEN inits + 1 ELSE inits
    /\ UNCHANGED <<clock, crashed, log, fresh, failed, running, thr, heap>>

\* The process restarts (power cycle, or after a trap): static storage is
\* zeroed again, the persistent blob survives.
Reboot ==
    /\ g_state' = ZeroState
    /\ crashed' = FALSE
    /\ last' = Quiet("boot")
    /\ log' = <<>>
    /\ fresh' = FALSE
    /\ failed' = <<>>
    /\ running' = FALSE
    /\ heap' = 0
    /\ UNCHANGED <<storage, clock, inits, thr>>

Next ==
    \/ Tick
    \/ InitModule
    \/ OnDispense
    \/ DispenseTrap
    \/ ForceSync
    \/ SyncTrap
    \/ Deinit
    \/ UpdateConfig
    \/ Reboot

Spec == Init /\ [][Next]_vars

(* ------------------------------------------------------------------ *)
(* A running instance under fair scheduling                            *)
(*                                                                     *)
(* A module started from ConfigA, sink enabled, that keeps running.    *)
(* The clock is the platform's 32-bit counter: it starts at 0 or one   *)
(* tick before it wraps, and advances to MaxTime. Each call reads the  *)
(* clock once. The clock advances, and a forced sync that the sink     *)
(* would accept is not put off for ever.                               *)
(* ------------------------------------------------------------------ *)
InitLive ==
    /\ clock \in {0, WordMod - 1}
    /\ g_state = consumption_init(ZeroState, <<ConfigA>>, <<>>, TRUE, clock).st
    /\ storage = <<>>
    /\ crashed = FALSE
    /\ failed = <<>>
    /\ last = Quiet("init")
    /\ log = <<>>
    /\ fresh = TRUE
    /\ inits = 1
    /\ running = TRUE
    /\ thr = [t \in Threads |-> Idle]
    /\ heap = 1

LTick ==
    /\ clock # MaxTime
    /\ clock' = Wrap32(clock + 1)
    /\ last' = Quiet("tick")
    /\ UNCHANGED <<g_state, storage, crashed, log, fresh, inits, failed, running, thr,
                   heap>>

LDispense ==
    /\ \E machine_id \in MachineIds, product_id \in ProductIds, sendOK \in BOOLEAN :
        LET r == consumption_on_dispense(g_state, machine_id, product_id,
                                         clock, clock, clock, sendOK, EmptyMem)
        IN /\ r.ret = CONSUMPTION_SUCCESS => Len(log) < MaxEvents
           /\ sendOK \in SinkAnswers(r)
           /\ g_state' = r.st
           /\ storage' = Stored(r.saved)
           /\ last' = Observe("on_dispense", r)
           /\ failed' = Pending(r)
           /\ log' = IF r.ret = CONSUMPTION_SUCCESS
                     THEN Append(log, [timestamp |-> clock,
                                       machine_id |-> machine_id,
                                       product_id |-> product_id])
                     ELSE log
    /\ UNCHANGED <<clock, crashed, fresh, inits, running, thr, heap>>

LForceSync ==
    /\ \E sendOK \in BOOLEAN :
        LET r == consumption_force_sync(g_state, clock, sendOK, EmptyMem)
        IN /\ sendOK \in SinkAnswers(r)
           /\ g_state' = r.st
           /\ storage' = Stored(r.saved)
           /\ last' = Observe("force_sync", r)
           /\ failed' = Pending(r)
    /\ UNCHANGED <<clock, crashed, log, fresh, inits, running, thr, heap>>

\* a forced sync whose payload the sink accepts
AcceptedSync == LForceSync /\ last'.sync = <<"accepted">>

NextLive ==
    \/ LTick
    \/ LDispense
    \/ LForceSync

SpecLive ==
    InitLive /\ [][NextLive]_vars /\ WF_vars(LTick) /\ SF_vars(AcceptedSync)

(* ------------------------------------------------------------------ *)
(* Actions: two callers that do not serialise their calls              *)
(*                                                                     *)
(* sync_to_api is cut at its accesses to g_state and at the call of    *)
(* the network sink; the core takes no lock and never calls the        *)
(* platform's enter_critical/exit_critical.                            *)
(* ------------------------------------------------------------------ *)
\* A caller that has set sync_in_progress in sync_to_api and has not yet
\* reset it.
InSync(t) == thr[t].pc \in {"window", "aggregate", "send"}

\* A caller inside consumption_platform_network_send.
InSend(t) == thr[t].pc = "send"

Goto(t, pc) == [thr EXCEPT ![t].pc = pc]

Return(t) == [thr EXCEPT ![t] = Idle]

ghosts == <<crashed, last, log, fresh, inits, failed, running, heap>>

\* a module started from ConfigA with nothing to restore
InitConc ==
    /\ g_state = consumption_init(ZeroState, <<ConfigA>>, <<>>, TRUE, 0).st
    /\ storage = <<>>
    /\ clock = 0
    /\ crashed = FALSE
    /\ failed = <<>>
    /\ last = Quiet("init")
    /\ log = <<>>
    /\ fresh = TRUE
    /\ inits = 1
    /\ running = TRUE
    /\ thr = [t \in Threads |-> Idle]
    /\ heap = 1

CTick ==
    /\ clock < MaxTime
    /\ clock' = clock + 1
    /\ UNCHANGED <<g_state, storage, thr, ghosts>>

\* consumption_on_dispense up to its call of sync_to_api
CDispense(t) ==
    /\ thr[t].pc = "idle"
    /\ g_state.total_events < MaxEvents
    /\ \E product_id \in ProductIds \ {0} :
        LET event == [timestamp |-> clock, machine_id |-> g_state.config.machine_id,
                      product_id |-> product_id]
            st1 == CountEvent(add_event_to_buffer(g_state, event))
        IN /\ g_state' = st1
           /\ thr' = IF st1.config.enable_external_api /\ OpportunisticSyncDue(st1, clock)
                     THEN Goto(t, "check")
                     ELSE thr
    /\ UNCHANGED <<storage, clock, ghosts>>

\* consumption_force_sync up to its call of sync_to_api
CForceSync(t) ==
    /\ thr[t].pc = "idle"
    /\ g_state.initialized
    /\ thr' = Goto(t, "check")
    /\ UNCHANGED <<g_state, storage, clock, ghosts>>

\* the sync_in_progress check finds a sync in progress
CBusy(t) ==
    /\ thr[t].pc = "check"
    /\ g_state.config.enable_external_api
    /\ g_state.sync_in_progress
    /\ thr' = Return(t)
    /\ UNCHANGED <<g_state, storage, clock, ghosts>>

\* the sync_in_progress check finds none
CPass(t) ==
    /\ thr[t].pc = "check"
    /\ g_state.config.enable_external_api
    /\ ~g_state.sync_in_progress
    /\ thr' = Goto(t, "set")
    /\ UNCHANGED <<g_state, storage, clock, ghosts>>

CSet(t) ==
    /\ thr[t].pc = "set"
    /\ g_state' = SyncEnter(g_state)
    /\ thr' = Goto(t, "window")
    /\ UNCHANGED <<storage, clock, ghosts>>

CEarly(t) ==
    /\ thr[t].pc = "window"
    /\ IntervalNotElapsed(g_state, clock)
    /\ g_state' = SyncTooEarly(g_state, clock)
    /\ thr' = Return(t)
    /\ UNCHANGED <<storage, clock, ghosts>>

CDue(t) ==
    /\ thr[t].pc = "window"
    /\ ~IntervalNotElapsed(g_state, clock)
    /\ thr' = [thr EXCEPT ![t].pc = "aggregate", ![t].now = clock]
    /\ UNCHANGED <<g_state, storage, clock, ghosts>>

CEmpty(t) ==
    /\ thr[t].pc = "aggregate"
    /\ aggregate_events(g_state, g_state.last_aggregation, thr[t].now,
                        EmptyMem).total_events = 0
    /\ g_state' = SyncNothingToSend(g_state, thr[t].now)
    /\ thr' = Return(t)
    /\ UNCHANGED <<storage, clock, ghosts>>

\* the payload is formatted and handed to consumption_platform_network_send
CSend(t) ==
    /\ thr[t].pc = "aggregate"
    /\ LET aggregate == aggregate_events(g_state, g_state.last_aggregation,
                                         thr[t].now, EmptyMem)
       IN /\ aggregate.total_events # 0
          /\ thr' = [thr EXCEPT ![t].pc = "send", ![t].sent = <<aggregate>>]
    /\ UNCHANGED <<g_state, storage, clock, ghosts>>

\* consumption_platform_network_send returns true
CAccepted(t) ==
    /\ thr[t].pc = "send"
    /\ g_state' = SyncAccepted(g_state, thr[t].now, thr[t].sent[1].period_end)
    /\ storage' = <<BlobOf(g_state')>>
    /\ thr' = Return(t)
    /\ UNCHANGED <<clock, ghosts>>

\* consumption_platform_network_send returns false
CRejected(t) ==
    /\ thr[t].pc = "send"
    /\ g_state' = SyncRejected(g_state, thr[t].now)
    /\ thr' = Return(t)
    /\ UNCHANGED <<storage, clock, ghosts>>

NextConc ==
    \/ CTick
    \/ \E t \in Threads :
        \/ CDispense(t)
        \/ CForceSync(t)
        \/ CBusy(t)
        \/ CPass(t)
        \/ CSet(t)
        \/ CEarly(t)
        \/ CDue(t)
        \/ CEmpty(t)
        \/ CSend(t)
        \/ CAccepted(t)
        \/ CRejected(t)

SpecConc == InitConc /\ [][NextConc]_vars

(* ------------------------------------------------------------------ *)
(* Actions: two callers of consumption_init that do not serialise      *)
(*                                                                     *)
(* consumption_init is cut at its accesses to g_state: the check of    *)
(* the flag, the store of the config, the restore or reset, the        *)
(* allocation, the store of the flag. In this specification inits      *)
(* counts the restores and resets, heap the blocks allocated.          *)
(* ------------------------------------------------------------------ *)
\* A caller outside consumption_init; ret is what its call returned, <<>>
\* before it has called.
Outside == [pc |-> "outside", config |-> <<>>, ret |-> <<>>]

Leave(t, ret) == [thr EXCEPT ![t].pc = "outside", ![t].ret = <<ret>>]

InitStart ==
    /\ g_state = ZeroState
    /\ storage = <<>>
    /\ clock = 0
    /\ crashed = FALSE
    /\ failed = <<>>
    /\ last = Quiet("boot")
    /\ log = <<>>
    /\ fresh = FALSE
    /\ inits = 0
    /\ running = FALSE
    /\ thr = [t \in Threads |-> Outside]
    /\ heap = 0

ITick ==
    /\ clock < MaxTime
    /\ clock' = clock + 1
    /\ UNCHANGED <<g_state, storage, thr, ghosts>>

\* the call: each caller calls once
ICall(t) ==
    /\ thr[t].pc = "outside"
    /\ thr[t].ret = <<>>
    /\ \E config \in InitConfigs :
        thr' = [thr EXCEPT ![t].pc = "check", ![t].config = config]
    /\ UNCHANGED <<g_state, storage, clock, ghosts>>

\* the flag is set: return success
IAlready(t) ==
    /\ thr[t].pc = "check"
    /\ AlreadyInitialized(g_state)
    /\ thr' = Leave(t, CONSUMPTION_SUCCESS)
    /\ UNCHANGED <<g_state, storage, clock, ghosts>>

\* the flag is clear, the config supplied is invalid
IInvalid(t) ==
    /\ thr[t].pc = "check"
    /\ ~AlreadyInitialized(g_state)
    /\ thr[t].config # <<>> /\ ~validate_config(thr[t].config)
    /\ thr' = Leave(t, CONSUMPTION_ERROR_INVALID_CONFIG)
    /\ UNCHANGED <<g_state, storage, clock, ghosts>>

\* the flag is clear, the config is valid or absent
IPass(t) ==
    /\ thr[t].pc = "check"
    /\ ~AlreadyInitialized(g_state)
    /\ thr[t].config = <<>> \/ validate_config(thr[t].config)
    /\ thr' = Goto(t, "config")
    /\ UNCHANGED <<g_state, storage, clock, ghosts>>

\* the config of the caller, or the default one
Given(t) == IF thr[t].config # <<>> THEN thr[t].config[1] ELSE init_default_config

IConfig(t) ==
    /\ thr[t].pc = "config"
    /\ g_state' = [g_state EXCEPT !.config = Given(t)]
    /\ thr' = Goto(t, "load")
    /\ UNCHANGED <<storage, clock, ghosts>>

\* load_state, and the reset when it fails
ILoad(t) ==
    /\ thr[t].pc = "load"
    /\ \E read \in StorageReads :
        g_state' = IF read # <<>> THEN read[1] ELSE ResetState(Given(t), clock)
    /\ inits' = inits + 1
    /\ thr' = Goto(t, "malloc")
    /\ UNCHANGED <<storage, clock, crashed, last, log, fresh, failed, running, heap>>

IMalloc(t) ==
    /\ thr[t].pc = "malloc"
    /\ g_state' = [g_state EXCEPT !.event_buffer = FreshBuffer]
    /\ heap' = heap + 1
    /\ thr' = Goto(t, "flag")
    /\ UNCHANGED <<storage, clock, crashed, last, log, fresh, inits, failed, running>>

IMallocFails(t) ==
    /\ thr[t].pc = "malloc"
    /\ g_state' = [g_state EXCEPT !.event_buffer = NullBuffer]
    /\ thr' = Leave(t, CONSUMPTION_ERROR_MEMORY_ERROR)
    /\ UNCHANGED <<storage, clock, ghosts>>

IFlag(t) ==
    /\ thr[t].pc = "flag"
    /\ g_state' = [g_state EXCEPT !.initialized = TRUE]
    /\ thr' = Leave(t, CONSUMPTION_SUCCESS)
    /\ UNCHANGED <<storage, clock, ghosts>>

NextInit ==
    \/ ITick
    \/ \E t \in Threads :
        \/ ICall(t)
        \/ IAlready(t)
        \/ IInvalid(t)
        \/ IPass(t)
        \/ IConfig(t)
        \/ ILoad(t)
        \/ IMalloc(t)
        \/ IMallocFails(t)
        \/ IFlag(t)

SpecInit == InitStart /\ [][NextInit]_vars

(* ------------------------------------------------------------------ *)
(* Actions: the payload of one aggregate                               *)
(*                                                                     *)
(* sync_to_api from the aggregate it has computed to the call of the   *)
(* network sink. last holds the aggregate, then the payload sent.      *)
(* ------------------------------------------------------------------ *)
\* A module inside sync_to_api, the flag set: its ring buffer holds count
\* events, all stamped 0, for each category of 1..top that is a multiple of
\* step.
Syncing(top, step, count) ==
    LET n == count * (top \div step)
        config == [ConfigA EXCEPT !.ring_buffer_size = DEFAULT_RING_BUFFER_SIZE]
        start == consumption_init(ZeroState, <<config>>, <<>>, TRUE, 0).st
        event(k) == [timestamp |-> 0, machine_id |-> config.machine_id,
                     product_id |-> ((k \div count) + 1) * step]
    IN [start EXCEPT !.event_buffer.mem = [k \in 0..(n - 1) |-> event(k)],
                     !.buffer_head = n,
                     !.buffer_count = n,
                     !.total_events = n,
                     !.sync_in_progress = TRUE]

\* aggregates sync_to_api sends: at least one event in the window
InitPayload ==
    /\ \E top \in 1..(PRODUCT_COUNTS_LEN - 1), step \in 1..MaxStep, count \in 1..MaxCount :
        /\ step <= top
        /\ g_state = Syncing(top, step, count)
    /\ storage = <<>>
    /\ clock = MaxTime
    /\ crashed = FALSE
    /\ failed = <<>>
    /\ last = [op |-> "aggregate",
               aggregate |-> aggregate_events(g_state, g_state.last_aggregation,
                                              clock, <<>>),
               i |-> 0, json |-> EmptyJson, payload |-> <<>>]
    /\ log = <<>>
    /\ fresh = TRUE
    /\ inits = 1
    /\ running = TRUE
    /\ thr = [t \in Threads |-> Idle]
    /\ heap = 1

rest == <<g_state, storage, clock, log, fresh, inits, failed, running, thr, heap>>

PHeader ==
    /\ ~crashed
    /\ last.op = "aggregate"
    /\ last' = [last EXCEPT !.op = "products", !.i = 1,
                            !.json = JsonHeader(last.aggregate)]
    /\ UNCHANGED <<crashed, rest>>

PProduct ==
    /\ ~crashed
    /\ last.op = "products"
    /\ last.i < PRODUCT_COUNTS_LEN
    /\ last' = [last EXCEPT !.i = last.i + 1,
                            !.json = JsonProduct(last.aggregate, last.i, last.json)]
    /\ UNCHANGED <<crashed, rest>>

\* the object is closed and the text handed to the network sink
PSend ==
    /\ ~crashed
    /\ last.op = "products"
    /\ last.i >= PRODUCT_COUNTS_LEN
    /\ last' = [last EXCEPT !.op = "send",
                            !.payload = <<Payload(last.aggregate, JsonClose(last.json))>>]
    /\ UNCHANGED <<crashed, rest>>

\* The trapping outcome of a snprintf that writes out of the buffer: the
\* process dies.
PTrap ==
    /\ ~crashed
    /\ last.op = "products"
    /\ last.json.overrun
    /\ crashed' = TRUE
    /\ UNCHANGED <<last, rest>>

NextPayload ==
    \/ PHeader
    \/ PProduct
    \/ PSend
    \/ PTrap

SpecPayload == InitPayload /\ [][NextPayload]_vars

(* ------------------------------------------------------------------ *)
(* Properties                                                          *)
(* ------------------------------------------------------------------ *)

\* C1: on an initialized module, whatever on_dispense calls (accepted or
\* rejected, with or without a sync) came before, the live count of the ring
\* buffer is at least 0 and at most the configured capacity.
C1_CountWithinCapacity ==
    g_state.initialized =>
        /\ g_state.buffer_count >= 0
        /\ g_state.buffer_count <= g_state.config.ring_buffer_size

\* An accepted on_dispense has just evicted: the buffer stays at capacity 2
\* after the third event.
C1_Witness ==
    /\ g_state.initialized
    /\ last.op = "on_dispense"
    /\ last.ret = CONSUMPTION_SUCCESS
    /\ g_state.config.ring_buffer_size = 2
    /\ g_state.buffer_count = 2
    /\ g_state.total_events = 3

\* The categories left in the buffer, oldest first, after the given
\* categories are dispensed one by one on st.
RECURSIVE DispenseAll(_, _)
DispenseAll(st, categories) ==
    IF categories = <<>> THEN st
    ELSE DispenseAll(
            consumption_on_dispense(st, st.config.machine_id, Head(categories),
                                    0, 0, 0, TRUE, EmptyMem).st,
            Tail(categories))

\* C2: on a freshly started module of capacity C, after n accepted events the
\* buffer read from tail to head is exactly the last min(n, C) accepted
\* events, oldest first (an append to a full buffer evicts exactly the
\* oldest); with C = 3 and categories 1..6 it holds 4, 5, 6, count 3, total 6.
C2_BufferHoldsNewest ==
    /\ fresh /\ g_state.initialized =>
        LET n == Len(log)
            kept == Min(n, g_state.config.ring_buffer_size)
        IN Contents(g_state, EmptyMem) = SubSeq(log, n - kept + 1, n)
    /\ LET started == consumption_init(ZeroState,
                                       <<[ConfigA EXCEPT !.ring_buffer_size = 3]>>,
                                       <<>>, TRUE, 0).st
           after == DispenseAll(started, <<1, 2, 3, 4, 5, 6>>)
           held == Contents(after, EmptyMem)
       IN /\ [i \in DOMAIN held |-> held[i].product_id] = <<4, 5, 6>>
          /\ after.buffer_count = 3
          /\ after.total_events = 6

\* Three events were accepted on a fresh module of capacity 2: the first one
\* has been evicted.
C2_Witness ==
    /\ fresh /\ g_state.initialized
    /\ last.op = "on_dispense"
    /\ last.ret = CONSUMPTION_SUCCESS
    /\ Len(log) = 3
    /\ g_state.config.ring_buffer_size = 2

\* C3: from a fresh (not restored) initialization, the lifetime total equals
\* the number of on_dispense calls that returned success; evictions do not
\* lower it and no sync attempt changes it.
C3_TotalCountsAccepted ==
    /\ fresh /\ g_state.initialized => g_state.total_events = Len(log)
    /\ g_state.initialized =>
        \A now \in Readings(clock), sendOK \in BOOLEAN, fill \in Fills(g_state) :
            consumption_force_sync(g_state, now, sendOK, fill).st.total_events
                = g_state.total_events

\* The third accepted event evicted the first and its opportunistic sync was
\* accepted by the sink.
C3_Witness ==
    /\ fresh /\ g_state.initialized
    /\ last.op = "on_dispense"
    /\ last.sync = <<"accepted">>
    /\ g_state.total_events = 3
    /\ g_state.buffer_count = 2

\* C4: on an initialized module, on_dispense with a machine id other than the
\* configured one, or with category 0, returns InvalidParameter, leaves the
\* whole module state (ring buffer head, tail, count and contents, lifetime
\* total, window boundaries) as it was, and triggers no sync: no aggregation,
\* no send, no persist.
C4_RejectedDispenseChangesNothing ==
    g_state.initialized =>
        \A machine_id \in MachineIds, product_id \in ProductIds :
        \A now \in Readings(clock), sendOK \in BOOLEAN, fill \in Fills(g_state) :
            (machine_id # g_state.config.machine_id \/ product_id = 0) =>
                LET r == consumption_on_dispense(g_state, machine_id, product_id,
                                                 now, now, now, sendOK, fill)
                IN /\ r.ret = CONSUMPTION_ERROR_INVALID_PARAMETER
                   /\ r.st = g_state
                   /\ ~r.agg
                   /\ r.sync = <<>>
                   /\ r.sent = <<>>
                   /\ r.saved = <<>>
                   /\ r.reads = <<>>

\* A call was rejected while events were buffered and a sync was due.
C4_Witness ==
    /\ g_state.initialized
    /\ last.op = "on_dispense"
    /\ last.ret = CONSUMPTION_ERROR_INVALID_PARAMETER
    /\ g_state.buffer_count = 2
    /\ g_state.config.enable_external_api
    /\ OpportunisticSyncDue(g_state, clock)

C6_EmptyWindowKeepsBoundaries ==
    g_state.initialized /\ g_state.config.enable_external_api
            /\ ~g_state.sync_in_progress =>
        \A now \in Readings(clock), sendOK \in BOOLEAN, fill \in Fills(g_state) :
            LET events == Contents(g_state, fill)
                r == consumption_force_sync(g_state, now, sendOK, fill)
            IN (/\ Sub32(now, g_state.last_aggregation)
                        >= g_state.config.aggregation_interval
                /\ \A i \in DOMAIN events :
                        \/ events[i].timestamp < g_state.last_aggregation
                        \/ events[i].timestamp > now) =>
                    /\ r.ret = CONSUMPTION_SUCCESS
                    /\ r.sent = <<>>
                    /\ r.saved = <<>>
                    /\ r.st.last_aggregation = g_state.last_aggregation
                    /\ r.st.last_sync = g_state.last_sync

\* A forced sync found its window empty more than one interval after the
\* window start: the start had not moved.
C6_Witness ==
    /\ last.op = "force_sync"
    /\ last.sync = <<"empty">>
    /\ last.saved = 0
    /\ clock - g_state.last_aggregation > g_state.config.aggregation_interval

\* C7: when the sink accepts a non-empty aggregate, last_sync and
\* last_aggregation both become the time read at the start of the attempt,
\* which is the period_end of the aggregate sent; a persist of the module
\* state is requested and the attempt returns success.
C7_AcceptedSendAdvancesWindow ==
    g_state.initialized /\ g_state.config.enable_external_api
            /\ ~g_state.sync_in_progress =>
        \A now \in Readings(clock), fill \in Fills(g_state) :
            LET events == Contents(g_state, fill)
                r == consumption_force_sync(g_state, now, TRUE, fill)
            IN (/\ Sub32(now, g_state.last_aggregation)
                        >= g_state.config.aggregation_interval
                /\ \E i \in DOMAIN events :
                        /\ events[i].timestamp >= g_state.last_aggregation
                        /\ events[i].timestamp <= now) =>
                    /\ r.ret = CONSUMPTION_SUCCESS
                    /\ Len(r.sent) = 1
                    /\ r.sent[1].period_start = g_state.last_aggregation
                    /\ r.sent[1].period_end = now
                    /\ r.st.last_sync = now
                    /\ r.st.last_aggregation = now
                    /\ r.saved = <<BlobOf(r.st)>>

\* A forced sync was accepted by the sink and its state persisted.
C7_Witness ==
    /\ last.op = "force_sync"
    /\ last.sync = <<"accepted">>
    /\ last.ret = CONSUMPTION_SUCCESS
    /\ last.saved = 1
    /\ g_state.last_aggregation = clock
    /\ g_state.last_sync = clock
    /\ storage = <<BlobOf(g_state)>>

\* C8: when the sink rejects the aggregate, the attempt returns ApiError (or
\* NetworkUnavailable), and last_aggregation, last_sync, the ring buffer and
\* the lifetime total are exactly as before the attempt; nothing is persisted.
C8_RejectedSendChangesNothing ==
    g_state.initialized /\ g_state.config.enable_external_api
            /\ ~g_state.sync_in_progress =>
        \A now \in Readings(clock), fill \in Fills(g_state) :
            LET r == consumption_force_sync(g_state, now, FALSE, fill)
            IN r.sent # <<>> =>
                /\ r.ret \in {CONSUMPTION_ERROR_API_ERROR,
                              CONSUMPTION_ERROR_NETWORK_UNAVAILABLE}
                /\ r.st.last_aggregation = g_state.last_aggregation
                /\ r.st.last_sync = g_state.last_sync
                /\ r.st.buffer_head = g_state.buffer_head
                /\ r.st.buffer_tail = g_state.buffer_tail
                /\ r.st.buffer_count = g_state.buffer_count
                /\ r.st.event_buffer = g_state.event_buffer
                /\ r.st.total_events = g_state.total_events
                /\ r.saved = <<>>

\* A forced sync was rejected by the sink after an earlier one had been
\* accepted and persisted.
C8_Witness ==
    /\ last.op = "force_sync"
    /\ last.sync = <<"rejected">>
    /\ last.ret = CONSUMPTION_ERROR_API_ERROR
    /\ last.saved = 0
    /\ g_state.last_sync > 0
    /\ g_state.buffer_count > 0

\* C9: while the window of a rejected send is pending, the next trigger that
\* reaches the network sink (a forced sync, the opportunistic sync of an
\* accepted on_dispense, or the final sync of deinit) sends an aggregate with
\* the period_start of the failed attempt, and that aggregate counts, in total
\* and per category, every event of the failed window that is still in the
\* buffer when the aggregate is taken.
C9_FailedWindowIsRetried ==
    g_state.initialized /\ failed # <<>> =>
        \A now \in Readings(clock), sendOK \in BOOLEAN, fill \in Fills(g_state) :
        \A product_id \in ProductIds :
            LET forced == consumption_force_sync(g_state, now, sendOK, fill)
                final == consumption_deinit(g_state, now, sendOK, fill)
                record == consumption_on_dispense(g_state, g_state.config.machine_id,
                                                  product_id, clock, now, now,
                                                  sendOK, fill)
                Retries(r, buffer) ==
                    r.sent # <<>> =>
                        LET events == Contents(buffer, fill)
                            pending == {i \in DOMAIN events :
                                /\ events[i].timestamp >= failed[1].period_start
                                /\ events[i].timestamp <= failed[1].period_end}
                        IN /\ r.sent[1].period_start = failed[1].period_start
                           /\ r.sent[1].total_events >= Cardinality(pending)
                           /\ \A c \in ProductIds :
                                ProductCount(r.sent[1], c) >= Cardinality(
                                    {i \in pending : events[i].product_id = c})
            IN /\ Retries(forced, g_state)
               /\ Retries(final, g_state)
               /\ Retries(record, record.st)

\* After a rejected send, a later trigger reached the sink again and was
\* accepted, with an event of the failed window still buffered.
C9_Witness ==
    /\ last.retry
    /\ last.sync = <<"accepted">>
    /\ last.op = "force_sync"
    /\ g_state.buffer_count > 0

\* C10: a trigger that finds the scheduler Syncing returns "already in
\* progress" at once and changes nothing; hence, however the calls of two
\* callers interleave, at most one sync attempt is between setting
\* sync_in_progress and resetting it, and at most one network send is in
\* flight.
C10_OneSyncAtATime ==
    \A t, u \in Threads :
        /\ InSync(t) /\ InSync(u) => t = u
        /\ InSend(t) /\ InSend(u) => t = u

\* The second half of C10 alone: two network sends are never in flight at
\* once.
C10_OneSendInFlight ==
    \A t, u \in Threads : InSend(t) /\ InSend(u) => t = u

\* C11: while the enable flag of the active config is false the network sink
\* is never invoked: on_dispense, force_sync and deinit send nothing and
\* leave last_sync and last_aggregation as they were, and force_sync returns
\* success.
C11_DisabledSinkNeverCalled ==
    g_state.initialized /\ ~g_state.config.enable_external_api =>
        \A machine_id \in MachineIds, product_id \in ProductIds :
        \A now \in Readings(clock), sendOK \in BOOLEAN, fill \in Fills(g_state) :
            LET record == consumption_on_dispense(g_state, machine_id, product_id,
                                                  clock, now, now, sendOK, fill)
                forced == consumption_force_sync(g_state, now, sendOK, fill)
                final == consumption_deinit(g_state, now, sendOK, fill)
                Silent(r) ==
                    /\ r.sent = <<>>
                    /\ r.st.last_sync = g_state.last_sync
                    /\ r.st.last_aggregation = g_state.last_aggregation
            IN /\ Silent(record)
               /\ Silent(forced)
               /\ Silent(final)
               /\ forced.ret = CONSUMPTION_SUCCESS

\* A forced sync ran with the sink disabled, an event buffered and the
\* aggregation interval elapsed.
C11_Witness ==
    /\ g_state.initialized
    /\ ~g_state.config.enable_external_api
    /\ last.op = "force_sync"
    /\ last.ret = CONSUMPTION_SUCCESS
    /\ last.sent = 0
    /\ g_state.buffer_count > 0
    /\ clock - g_state.last_aggregation >= g_state.config.aggregation_interval
    /\ \E i \in DOMAIN g_state.event_buffer.mem :
            g_state.event_buffer.mem[i].timestamp >= g_state.last_aggregation

\* C12: no execution of consumption_on_dispense calls the network sink before
\* it returns: whatever the arguments, the clock readings and the state, the
\* call hands nothing to consumption_platform_network_send.
C12_DispenseNeverSends ==
    \A machine_id \in MachineIds, product_id \in ProductIds :
    \A t1 \in Readings(clock), sendOK \in BOOLEAN, fill \in Fills(g_state) :
    \A t2 \in Readings(t1) :
        consumption_on_dispense(g_state, machine_id, product_id,
                                t1, t2, t2, sendOK, fill).sent = <<>>

\* C13: on an initialized module no public operation other than deinit
\* (on_dispense, force_sync, update_config with any argument) changes the
\* ring buffer capacity or the machine identifier of the active config.
C13_IdentityAndCapacityFixed ==
    g_state.initialized =>
        \A machine_id \in MachineIds, product_id \in ProductIds :
        \A now \in Readings(clock), sendOK \in BOOLEAN, fill \in Fills(g_state) :
        \A config \in UpdateConfigs :
            LET record == consumption_on_dispense(g_state, machine_id, product_id,
                                                  clock, now, now, sendOK, fill)
                forced == consumption_force_sync(g_state, now, sendOK, fill)
                updated == consumption_update_config(g_state, config)
                Fixed(r) ==
                    /\ r.st.config.ring_buffer_size = g_state.config.ring_buffer_size
                    /\ r.st.config.machine_id = g_state.config.machine_id
            IN Fixed(record) /\ Fixed(forced) /\ Fixed(updated)

\* C14: on an initialized module, update_config with a config that passes
\* validation but whose capacity differs from the active capacity returns
\* InvalidParameter, leaves every field of the active config (and of the
\* module state) as it was, and requests no persist.
C14_CapacityChangeRejected ==
    g_state.initialized =>
        \A config \in UpdateConfigs :
            (/\ validate_config(config)
             /\ config[1].ring_buffer_size # g_state.config.ring_buffer_size) =>
                LET r == consumption_update_config(g_state, config)
                IN /\ r.ret = CONSUMPTION_ERROR_INVALID_PARAMETER
                   /\ consumption_get_config(r.st) = consumption_get_config(g_state)
                   /\ r.st = g_state
                   /\ r.saved = <<>>

\* An update was rejected with InvalidParameter on a module that holds
\* events.
C14_Witness ==
    /\ g_state.initialized
    /\ last.op = "update_config"
    /\ last.ret = CONSUMPTION_ERROR_INVALID_PARAMETER
    /\ last.saved = 0
    /\ g_state.config.ring_buffer_size = 2
    /\ g_state.buffer_count > 0

\* C15: on an initialized module, update_config with a valid config that
\* differs from the active one only in the aggregation interval returns
\* success; get_config then returns the new interval; and the lifetime total,
\* the ring buffer (head, tail, count, contents), last_sync and
\* last_aggregation are as before the update.
C15_IntervalUpdateTouchesOnlyInterval ==
    g_state.initialized =>
        \A config \in UpdateConfigs :
            (/\ validate_config(config)
             /\ config[1].aggregation_interval # g_state.config.aggregation_interval
             /\ config[1] = [g_state.config EXCEPT
                    !.aggregation_interval = config[1].aggregation_interval]) =>
                LET r == consumption_update_config(g_state, config)
                IN /\ r.ret = CONSUMPTION_SUCCESS
                   /\ consumption_get_config(r.st).aggregation_interval
                        = config[1].aggregation_interval
                   /\ consumption_get_config(r.st) = config[1]
                   /\ r.st.total_events = g_state.total_events
                   /\ r.st.buffer_head = g_state.buffer_head
                   /\ r.st.buffer_tail = g_state.buffer_tail
                   /\ r.st.buffer_count = g_state.buffer_count
                   /\ r.st.event_buffer = g_state.event_buffer
                   /\ r.st.last_sync = g_state.last_sync
                   /\ r.st.last_aggregation = g_state.last_aggregation

\* The interval was updated from 1 to 2 on a module holding events, after a
\* sync had moved the window.
C15_Witness ==
    /\ g_state.initialized
    /\ last.op = "update_config"
    /\ last.ret = CONSUMPTION_SUCCESS
    /\ g_state.config = [ConfigA EXCEPT !.aggregation_interval = 2]
    /\ g_state.buffer_count > 0
    /\ g_state.last_sync > 0

\* C16: while the module is not initialized (no init has returned success
\* since the start, the last deinit or a failed init), on_dispense, get_stats
\* and force_sync return InvalidConfig and change nothing: no event is
\* appended, no counter changes, and neither the network sink nor the storage
\* is called.
C16_UninitializedCallsRefused ==
    ~running /\ ~crashed =>
        \A machine_id \in MachineIds, product_id \in ProductIds :
        \A now \in Readings(clock), sendOK \in BOOLEAN, fill \in Fills(g_state) :
            LET record == consumption_on_dispense(g_state, machine_id, product_id,
                                                  clock, now, now, sendOK, fill)
                forced == consumption_force_sync(g_state, now, sendOK, fill)
                Refused(r) ==
                    /\ r.ret = CONSUMPTION_ERROR_INVALID_CONFIG
                    /\ r.st = g_state
                    /\ r.sent = <<>>
                    /\ r.saved = <<>>
            IN /\ Refused(record)
               /\ Refused(forced)
               /\ consumption_get_stats(g_state).ret = CONSUMPTION_ERROR_INVALID_CONFIG

\* C17: consumption_init on an already initialized module returns success
\* and leaves the module state entirely as it was (active config, lifetime
\* total, ring buffer and contents, last_aggregation, last_sync), whatever
\* config is passed; it reads no clock, no storage and persists nothing.
C17_InitIsIdempotent ==
    g_state.initialized =>
        \A config \in InitConfigs, read \in StorageReads, mallocOK \in BOOLEAN :
            LET r == consumption_init(g_state, config, read, mallocOK, clock)
            IN /\ r.ret = CONSUMPTION_SUCCESS
               /\ r.st = g_state
               /\ r.saved = <<>>
               /\ r.reads = <<>>

\* init was called again after events had been accepted, and they are still
\* buffered.
C17_Witness ==
    /\ g_state.initialized
    /\ last.op = "init"
    /\ last.ret = CONSUMPTION_SUCCESS
    /\ Len(log) = 2
    /\ g_state.buffer_count = 2

\* C18: consumption_init on an uninitialized module with a supplied config
\* that fails validation (machine identifier 0, capacity 0, or capacity above
\* 10000) returns InvalidConfig and leaves the module state as it was, so
\* still uninitialized, with nothing restored from storage and no buffer
\* allocated, whatever the storage holds and whether or not memory is left.
C18_InvalidConfigRefused ==
    ~g_state.initialized =>
        \A config \in InitConfigs, read \in StorageReads, mallocOK \in BOOLEAN :
            (/\ config # <<>>
             /\ \/ config[1].machine_id = 0
                \/ config[1].ring_buffer_size = 0
                \/ config[1].ring_buffer_size > 10000) =>
                LET r == consumption_init(g_state, config, read, mallocOK, clock)
                IN /\ r.ret = CONSUMPTION_ERROR_INVALID_CONFIG
                   /\ r.st = g_state
                   /\ ~r.st.initialized
                   /\ r.st.event_buffer = g_state.event_buffer
                   /\ r.saved = <<>>
                   /\ r.reads = <<>>

\* An init was refused with InvalidConfig while the storage held a blob of
\* an earlier session with events.
C18_Witness ==
    /\ ~g_state.initialized
    /\ last.op = "init"
    /\ last.ret = CONSUMPTION_ERROR_INVALID_CONFIG
    /\ storage # <<>>
    /\ storage[1].total_events > 0
    /\ g_state.total_events = 0

\* C19: when consumption_init with a valid supplied config returns success
\* on an uninitialized module, get_config returns the machine identifier and
\* the ring buffer capacity of the supplied config, whatever the persistent
\* storage read returned.
C19_SuppliedConfigIsActive ==
    ~g_state.initialized =>
        \A config \in InitConfigs, read \in StorageReads, mallocOK \in BOOLEAN :
            LET r == consumption_init(g_state, config, read, mallocOK, clock)
            IN (validate_config(config) /\ r.ret = CONSUMPTION_SUCCESS) =>
                /\ consumption_get_config(r.st).machine_id = config[1].machine_id
                /\ consumption_get_config(r.st).ring_buffer_size
                        = config[1].ring_buffer_size

\* C20: whenever the module is initialized the active config passes
\* validation: the machine identifier is nonzero and the capacity is in
\* 1..10000 (after init with a supplied config, after init with no config,
\* after an init that restores a blob, after every update_config).
C20_ActiveConfigValid ==
    g_state.initialized =>
        /\ validate_config(<<g_state.config>>)
        /\ g_state.config.machine_id # 0
        /\ g_state.config.ring_buffer_size \in 1..10000

\* C21: round trip of the module state through the storage. Every persist (by
\* an accepted sync, an update_config or a deinit) writes the active config,
\* the lifetime total, last_sync and last_aggregation as they are at that
\* moment, and an init that restores the stored blob ends with exactly the
\* stored config, lifetime total, last_sync and last_aggregation.
C21_PersistRestoreRoundTrip ==
    LET Same(a, b) ==
            /\ a.config = b.config
            /\ a.total_events = b.total_events
            /\ a.last_sync = b.last_sync
            /\ a.last_aggregation = b.last_aggregation
        Captured(r, st) ==
            r.saved # <<>> => Same(r.saved[Len(r.saved)], st)
    IN /\ \A now \in Readings(clock), sendOK \in BOOLEAN, fill \in Fills(g_state) :
            LET forced == consumption_force_sync(g_state, now, sendOK, fill)
                final == consumption_deinit(g_state, now, sendOK, fill)
            IN /\ Captured(forced, forced.st)
               /\ Captured(final, final.st)
               /\ \A product_id \in ProductIds :
                    LET record == consumption_on_dispense(
                                      g_state, g_state.config.machine_id,
                                      product_id, clock, now, now, sendOK, fill)
                    IN Captured(record, record.st)
       /\ \A config \in UpdateConfigs :
            LET updated == consumption_update_config(g_state, config)
            IN Captured(updated, updated.st)
       /\ ~g_state.initialized /\ storage # <<>> =>
            \A config \in InitConfigs, mallocOK \in BOOLEAN :
                LET r == consumption_init(g_state, config, storage, mallocOK, clock)
                IN r.ret # CONSUMPTION_ERROR_INVALID_CONFIG => Same(r.st, storage[1])

\* An init has restored the blob of an earlier session: the lifetime total
\* and the window start of that session are back, with no event accepted in
\* this one.
C21_Witness ==
    /\ g_state.initialized
    /\ last.op = "init"
    /\ last.ret = CONSUMPTION_SUCCESS
    /\ ~fresh
    /\ log = <<>>
    /\ g_state.total_events > 0
    /\ g_state.last_aggregation > 0
    /\ storage = <<BlobOf(g_state)>>

\* C22: buffered events do not survive a restart. After an init that restored
\* the module state from a persisted blob, with no event accepted since, the
\* ring buffer is empty: get_stats reports 0 buffered events and an
\* aggregation over any window counts 0 events.
C22_RestoredBufferEmpty ==
    /\ g_state.initialized
    /\ g_state.event_buffer.alloc
    /\ last.op = "init"
    /\ last.ret = CONSUMPTION_SUCCESS
    /\ ~fresh
    /\ log = <<>>
    => /\ consumption_get_stats(g_state).out[1].buffered_events = 0
       /\ \A start_time \in 0..MaxTime, end_time \in 0..MaxTime :
          \A fill \in Fills(g_state) :
            aggregate_events(g_state, start_time, end_time, fill).total_events = 0

\* C23: consumption_deinit on an initialized module always returns success,
\* with the final module state handed to the storage and the initialized
\* flag cleared, whatever the final sync does; on the state it leaves,
\* on_dispense, get_stats and force_sync return InvalidConfig.
C23_DeinitAlwaysCompletes ==
    [][g_state.initialized /\ last'.op \in {"deinit", "deinit_trap"}
        => /\ ~crashed'
           /\ last'.ret = CONSUMPTION_SUCCESS
           /\ last'.saved > 0
           /\ storage' # <<>>
           /\ storage'[1].config = g_state'.config
           /\ storage'[1].total_events = g_state'.total_events
           /\ ~g_state'.initialized
           /\ consumption_get_stats(g_state').ret = CONSUMPTION_ERROR_INVALID_CONFIG
           /\ consumption_force_sync(g_state', clock', TRUE, <<>>).ret
                = CONSUMPTION_ERROR_INVALID_CONFIG
           /\ \A machine_id \in MachineIds, product_id \in ProductIds :
                consumption_on_dispense(g_state', machine_id, product_id, clock',
                                        clock', clock', TRUE, <<>>).ret
                    = CONSUMPTION_ERROR_INVALID_CONFIG]_vars

\* C24: consumption_init is thread-safe. With two callers inside it at once
\* on an uninitialized module, at most one ring buffer is ever allocated (no
\* second allocation overwrites or leaks the first), the state is restored or
\* reset once unless a call returned an error, and the initialized flag is
\* never seen set while the buffer does not exist.
C24_InitThreadSafe ==
    /\ heap <= 1
    /\ (\A t \in Threads : thr[t].ret \in {<<>>, <<CONSUMPTION_SUCCESS>>}) => inits <= 1
    /\ g_state.initialized => g_state.event_buffer.alloc

\* C25: the lifetime total is never decremented. Over every public operation
\* (init, on_dispense, force_sync, update_config, deinit, and an init that
\* follows a deinit, with the storage read succeeding or failing), the total
\* get_stats reports afterwards is at least the total the module held before
\* the operation, which is the one get_stats reported last.
C25_TotalNeverDecreases ==
    [][g_state'.initialized =>
        consumption_get_stats(g_state').out[1].total_events >= g_state.total_events]_vars

\* C26: when the allocation of the ring buffer fails, init returns
\* MemoryError and the module is left not initialized, also when the state
\* was restored from a blob first: get_stats, force_sync and on_dispense then
\* return InvalidConfig.
C26_FailedAllocationAborts ==
    last.op = "init" /\ last.ret = CONSUMPTION_ERROR_MEMORY_ERROR =>
        /\ ~g_state.initialized
        /\ consumption_get_stats(g_state).ret = CONSUMPTION_ERROR_INVALID_CONFIG
        /\ \A now \in Readings(clock), sendOK \in BOOLEAN, fill \in Fills(g_state) :
            /\ consumption_force_sync(g_state, now, sendOK, fill).ret
                = CONSUMPTION_ERROR_INVALID_CONFIG
            /\ \A machine_id \in MachineIds, product_id \in ProductIds :
                consumption_on_dispense(g_state, machine_id, product_id,
                                        now, now, now, sendOK, fill).ret
                    = CONSUMPTION_ERROR_INVALID_CONFIG

\* C27: the payload forwarded to the sink carries the machine_id,
\* period_start, period_end and total_events of the aggregate, is built
\* inside its buffer, and its products object has an entry for a category c
\* of 1..255, with the aggregate's count for c, exactly when that count is
\* nonzero.
C27_PayloadCarriesAggregate ==
    last.op = "send" =>
        LET aggregate == last.aggregate
            payload == last.payload[1]
        IN /\ payload.machine_id = <<aggregate.machine_id>>
           /\ payload.period_start = <<aggregate.period_start>>
           /\ payload.period_end = <<aggregate.period_end>>
           /\ payload.total_events = <<aggregate.total_events>>
           /\ ~payload.overrun
           /\ \A c \in 1..(PRODUCT_COUNTS_LEN - 1) :
                /\ c \in DOMAIN payload.products <=> ProductCount(aggregate, c) > 0
                /\ c \in DOMAIN payload.products =>
                        payload.products[c] = ProductCount(aggregate, c)

C29_SyncLeavesBufferAlone ==
    g_state.initialized =>
        \A now \in Readings(clock), sendOK \in BOOLEAN, fill \in Fills(g_state) :
        \A busy \in BOOLEAN :
            LET before == [g_state EXCEPT !.sync_in_progress = busy]
                after == sync_to_api(before, now, sendOK, fill).st
            IN /\ after.buffer_head = before.buffer_head
               /\ after.buffer_tail = before.buffer_tail
               /\ after.buffer_count = before.buffer_count
               /\ after.event_buffer = before.event_buffer
               /\ after.total_events = before.total_events

\* A forced sync was accepted by the sink, and the events it sent are still
\* in the buffer.
C29_Witness ==
    /\ g_state.initialized
    /\ last.op = "force_sync"
    /\ last.sync = <<"accepted">>
    /\ g_state.buffer_count = 2
    /\ g_state.total_events = 3

\* C30: every sync attempt that enters Syncing leaves it: whichever exit it
\* takes, sync_in_progress is false when sync_to_api returns. With serialised
\* callers the flag is false in every state between two public operations,
\* and no trigger is refused because a sync is in progress.
C30_SyncAlwaysLeaves ==
    /\ ~g_state.sync_in_progress
    /\ last.sync # <<"busy">>
    /\ g_state.initialized =>
        \A now \in Readings(clock), sendOK \in BOOLEAN, fill \in Fills(g_state) :
            ~sync_to_api(g_state, now, sendOK, fill).st.sync_in_progress

\* A sync attempt entered and left with its send rejected, and a later
\* trigger entered again, reached the sink and left as well.
C30_Witness ==
    /\ g_state.initialized
    /\ last.op = "force_sync"
    /\ last.retry
    /\ last.sync = <<"accepted">>
    /\ ~g_state.sync_in_progress

\* C31: when init cannot restore a blob (the storage read fails, or no blob
\* was ever stored), the module starts from the zero state: lifetime total 0,
\* buffered count 0 with head = tail = 0, last_sync 0, sync_in_progress
\* false, the active config equal to the supplied one (the defaults when none
\* is supplied), and last_aggregation equal to the clock reading taken during
\* init.
C31_FailedRestoreStartsFromZero ==
    ~g_state.initialized =>
        \A config \in InitConfigs, mallocOK \in BOOLEAN, read \in StorageReads :
            LET r == consumption_init(g_state, config, read, mallocOK, clock)
                started == r.st
            IN (read = <<>> \/ storage = <<>>)
                    /\ r.ret # CONSUMPTION_ERROR_INVALID_CONFIG =>
                /\ started.total_events = 0
                /\ started.buffer_count = 0
                /\ started.buffer_head = 0
                /\ started.buffer_tail = 0
                /\ started.last_sync = 0
                /\ ~started.sync_in_progress
                /\ started.config = IF config # <<>> THEN config[1]
                                    ELSE init_default_config
                /\ started.last_aggregation = clock

C33_AggregatesDisjoint ==
    g_state.initialized /\ g_state.event_buffer.alloc =>
        \A now1 \in Readings(clock) : \A now2 \in now1..MaxTime :
        \A fill \in Fills(g_state) :
            LET first == sync_to_api(g_state, now1, TRUE, fill)
                second == sync_to_api(first.st, now2, TRUE, fill)
                events == Contents(g_state, fill)
                Counted(aggregate) ==
                    {i \in DOMAIN events :
                        /\ aggregate.period_start <= events[i].timestamp
                        /\ events[i].timestamp <= aggregate.period_end}
            IN first.sync = <<"accepted">> /\ second.sync = <<"accepted">> =>
                Counted(first.sent[1]) \cap Counted(second.sent[1]) = {}

\* C34: in every reachable state last_sync is 0 or equal to last_aggregation,
\* so last_sync <= last_aggregation; and while the module runs the two only
\* change together, in a send the sink accepted, which leaves them equal.
C34_SyncStampsMoveTogether ==
    /\ [](/\ g_state.last_sync \in {0, g_state.last_aggregation}
          /\ g_state.last_sync <= g_state.last_aggregation)
    /\ [][/\ g_state.initialized
          /\ g_state'.initialized
          /\ \/ g_state'.last_sync # g_state.last_sync
             \/ g_state'.last_aggregation # g_state.last_aggregation
          => /\ last'.sync = <<"accepted">>
             /\ g_state'.last_sync = g_state'.last_aggregation]_vars

\* A send was accepted at a time after 0: both stamps hold that time.
C34_Witness ==
    /\ g_state.initialized
    /\ last.sync = <<"accepted">>
    /\ g_state.last_sync > 0
    /\ g_state.last_sync = g_state.last_aggregation

\* C35: every aggregate handed to the network sink has total_events >= 1,
\* period_start <= period_end and period_end - period_start >=
\* aggregation_interval as true differences, whatever the trigger, also when
\* the clock reading is lower than last_aggregation and the unsigned
\* subtraction of the gate wraps.
C35_SentAggregateWellFormed ==
    g_state.initialized =>
        \A now \in (0..MaxTime) \cup {WordMod - 1} :
        \A sendOK \in BOOLEAN, fill \in Fills(g_state), product_id \in ProductIds :
            LET forced == consumption_force_sync(g_state, now, sendOK, fill)
                final == consumption_deinit(g_state, now, sendOK, fill)
                record == consumption_on_dispense(g_state, g_state.config.machine_id,
                                                  product_id, clock, now, now,
                                                  sendOK, fill)
                WellFormed(r) ==
                    \A i \in DOMAIN r.sent :
                        /\ r.sent[i].total_events >= 1
                        /\ r.sent[i].period_start <= r.sent[i].period_end
                        /\ r.sent[i].period_end - r.sent[i].period_start
                            >= g_state.config.aggregation_interval
            IN /\ WellFormed(forced)
               /\ WellFormed(final)
               /\ WellFormed(record)

\* An aggregate was sent again after a rejected send and accepted at
\* MaxTime, by a module whose interval is 1.
C35_Witness ==
    /\ g_state.initialized
    /\ last.sent = 1
    /\ last.sync = <<"accepted">>
    /\ last.retry
    /\ g_state.last_aggregation = MaxTime
    /\ g_state.config.aggregation_interval = 1

\* C36: with the sink enabled, the opportunistic trigger of an accepted
\* on_dispense does what a force_sync issued right after the append, at the
\* same clock reading, would do: it hands the same aggregate to the sink, or
\* none, and leaves the same state. The gate of on_dispense on now - last_sync
\* never suppresses a send that the gate of sync_to_api on now -
\* last_aggregation would let through, also for a clock reading lower than
\* last_aggregation.
C36_OpportunisticEqualsForced ==
    g_state.initialized /\ ~SinkDisabled(g_state) =>
        \A now \in (0..MaxTime) \cup {WordMod - 1} :
        \A sendOK \in BOOLEAN, fill \in Fills(g_state), product_id \in ProductIds :
            LET machine_id == g_state.config.machine_id
                record == consumption_on_dispense(g_state, machine_id, product_id,
                                                  clock, now, now, sendOK, fill)
                event == [timestamp |-> clock, machine_id |-> machine_id,
                          product_id |-> product_id]
                appended == CountEvent(add_event_to_buffer(g_state, event))
                forced == consumption_force_sync(appended, now, sendOK, fill)
            IN record.ret = CONSUMPTION_SUCCESS =>
                /\ record.sent = forced.sent
                /\ record.st = forced.st
                /\ record.saved = forced.saved

\* The first event of a module started after time 0, which has never synced
\* (last_sync 0, last_aggregation at the start time), was forwarded by its
\* own on_dispense and accepted.
C36_Witness ==
    /\ fresh /\ g_state.initialized
    /\ last.op = "on_dispense"
    /\ last.sent = 1
    /\ last.sync = <<"accepted">>
    /\ Len(log) = 1
    /\ log[1].timestamp > 0
    /\ g_state.last_sync = MaxTime

\* C37: an on_dispense call that passes validation returns success and the
\* event is recorded (total incremented, head, tail and count as the append
\* left them, the event the newest one of an allocated buffer), also when
\* the opportunistic sync is rejected by the sink or finds a sync already in
\* progress: the result of the sync is never returned to the caller.
C37_SyncErrorNotReturned ==
    g_state.initialized =>
        \A now \in Readings(clock), sendOK \in BOOLEAN, fill \in Fills(g_state) :
        \A busy \in BOOLEAN, product_id \in ProductIds \ {0} :
            LET before == [g_state EXCEPT !.sync_in_progress = busy]
                machine_id == before.config.machine_id
                event == [timestamp |-> clock, machine_id |-> machine_id,
                          product_id |-> product_id]
                appended == add_event_to_buffer(before, event)
                record == consumption_on_dispense(before, machine_id, product_id,
                                                  clock, now, now, sendOK, fill)
                held == Contents(record.st, fill)
            IN /\ record.ret = CONSUMPTION_SUCCESS
               /\ record.st.total_events = Wrap32(before.total_events + 1)
               /\ record.st.buffer_head = appended.buffer_head
               /\ record.st.buffer_tail = appended.buffer_tail
               /\ record.st.buffer_count = appended.buffer_count
               /\ record.st.event_buffer = appended.event_buffer
               /\ ~AppendUndefined(before) =>
                    held # <<>> /\ held[Len(held)] = event

\* The sink rejected the opportunistic sync of the second accepted event, and
\* the call returned success with both events recorded.
C37_Witness ==
    /\ fresh /\ g_state.initialized
    /\ last.op = "on_dispense"
    /\ last.sync = <<"rejected">>
    /\ last.ret = CONSUMPTION_SUCCESS
    /\ Len(log) = 2
    /\ g_state.total_events = 2
    /\ g_state.buffer_count = 2

\* C38: while the payload of an aggregate is built, the running length never
\* exceeds the size of json_buffer, and the length passed to the network
\* sink is at most the size less the terminator.
C38_PayloadFitsBuffer ==
    /\ last.op = "products" => last.json.len <= JSON_BUFFER_SIZE
    /\ last.op = "send" => last.payload[1].len <= JSON_BUFFER_SIZE - 1

\* C39: update_config on a module that is not initialized (never started,
\* or shut down) returns an error, leaves the active configuration as it
\* was and writes nothing to persistent storage.
C39_UpdateNeedsInitialized ==
    ~g_state.initialized =>
        \A config \in UpdateConfigs :
            LET r == consumption_update_config(g_state, config)
            IN /\ r.ret # CONSUMPTION_SUCCESS
               /\ r.st.config = g_state.config
               /\ r.saved = <<>>

\* C40: in every state of an initialized module, head and tail are below the
\* capacity and head = (tail + count) mod capacity.
C40_RingIndicesConsistent ==
    g_state.initialized =>
        LET capacity == g_state.config.ring_buffer_size
        IN /\ g_state.buffer_head < capacity
           /\ g_state.buffer_tail < capacity
           /\ capacity > 0 =>
                g_state.buffer_head
                    = (g_state.buffer_tail + g_state.buffer_count) % capacity

====
